---------------------------- MODULE Spec2Model ----------------------------
(***************************************************************************)
(* Model of the local_config crate (src/src/lib.rs):                       *)
(*   - Settings::new      : path resolution and loading of one file        *)
(*   - Settings::get_path : path-valued accessor over the parsed store      *)
(*   - global_config      : the process-wide OnceLock<Settings>            *)
(* Paths are sequences of one-character strings, as std::path sees them on *)
(* Unix; the filesystem is a small tree with one directory, one            *)
(* configuration file and one symbolic link.                               *)
(***************************************************************************)
EXTENDS Integers, Sequences, FiniteSets, TLC

(* ------------------------------ bounds -------------------------------- *)
\* longest path handed to Settings::new(Some(path))
MaxPathLen == 4
\* longest string value stored under a key of the configuration
MaxValLen == 4
\* number of threads calling global_config()
NumThreads == 3
\* the counter of Settings::new(None) executions saturates here
MaxCount == 2

(* ------------------------------ strings ------------------------------- *)
Chars == {"/", ".", "a", "c", "l"}
ValChars == {"/", ".", "a"}

RECURSIVE StringsUpTo(_, _)
StringsUpTo(alphabet, n) ==
    IF n = 0 THEN {<<>>}
    ELSE LET shorter == StringsUpTo(alphabet, n - 1)
         IN  shorter \cup {Append(s, ch) : s \in {x \in shorter : Len(x) = n - 1},
                                            ch \in alphabet}

Paths == StringsUpTo(Chars, MaxPathLen)
Values == StringsUpTo(ValChars, MaxValLen)

(* ----------------------- std::path, Unix flavour ----------------------- *)
\* the segments between the separators, empty ones included
RECURSIVE SplitAcc(_, _, _)
SplitAcc(p, cur, acc) ==
    IF p = <<>> THEN Append(acc, cur)
    ELSE IF Head(p) = "/" THEN SplitAcc(Tail(p), <<>>, Append(acc, cur))
    ELSE SplitAcc(Tail(p), Append(cur, Head(p)), acc)

Segments(p) == SplitAcc(p, <<>>, <<>>)

RootDir == <<"/">>
CurDir == <<".">>
ParentDir == <<".", ".">>

\* Path::is_absolute (on Unix: has_root)
is_absolute(p) == Len(p) > 0 /\ p[1] = "/"

RECURSIVE KeepComponents(_, _)
KeepComponents(segs, i) ==
    IF i > Len(segs) THEN <<>>
    ELSE IF segs[i] # <<>> /\ (segs[i] = CurDir => i = 1)
         THEN <<segs[i]>> \o KeepComponents(segs, i + 1)
         ELSE KeepComponents(segs, i + 1)

\* Path::components: repeated separators and every "." but a leading one
\* are normalised away; ".." is kept
Components(p) ==
    (IF is_absolute(p) THEN <<RootDir>> ELSE <<>>) \o KeepComponents(Segments(p), 1)

\* PartialEq for Path compares components
PathEq(p, q) == Components(p) = Components(q)

None == [k |-> "none"]
Some(v) == [k |-> "some", v |-> v]

\* Path::file_name: the last component when it is a normal one
file_name(p) ==
    LET cs == Components(p)
    IN  IF cs = <<>> THEN None
        ELSE IF cs[Len(cs)] \in {RootDir, CurDir, ParentDir} THEN None
        ELSE Some(cs[Len(cs)])

\* join that forgets the separator
join_no_sep(base, p) == IF is_absolute(p) THEN p ELSE base \o p

\* Path::join (PathBuf::push): an absolute argument replaces the base,
\* otherwise it is appended after a separator; nothing is normalised
join(base, p) ==
    LET need_sep == Len(base) > 0 /\ base[Len(base)] # "/"
    IN  IF is_absolute(p) THEN p
        ELSE IF need_sep THEN base \o <<"/">> \o p
        ELSE base \o p

(* ----------------------------- filesystem ----------------------------- *)
\* Names of the tree: the directory /a, the configuration file c (in / or
\* in /a) and the symbolic link /l (to the file, or to the directory /a).
A == <<"a">>
C == <<"c">>
L == <<"l">>
Root == <<>>

FileStates == {"absent", "bad", "v1", "v2"}
LinkStates == {"absent", "tofile", "todir"}
Dirs == {Root, <<A>>}
FileSystems == [file : FileStates, at : Dirs, link : LinkStates]

FileNode(fs) == Append(fs.at, C)

\* what lstat finds at a canonical location
Kind(fs, node) ==
    IF node \in Dirs THEN "dir"
    ELSE IF node = FileNode(fs) /\ fs.file # "absent" THEN "file"
    ELSE IF node = <<L>> /\ fs.link # "absent" THEN "link"
    ELSE "none"

LinkTarget(fs) == IF fs.link = "tofile" THEN FileNode(fs) ELSE <<A>>

Found(node) == [k |-> "ok", node |-> node]
NoEntry == [k |-> "err"]

\* the kernel's path walk: every step needs a directory to step from,
\* "." and empty segments stay, ".." goes to the parent (the root is its
\* own parent), a symbolic link is followed to its target
RECURSIVE Walk(_, _, _, _)
Walk(fs, cur, segs, i) ==
    IF i > Len(segs) THEN Found(cur)
    ELSE IF Kind(fs, cur) # "dir" THEN NoEntry
    ELSE IF segs[i] \in {<<>>, CurDir} THEN Walk(fs, cur, segs, i + 1)
    ELSE IF segs[i] = ParentDir
         THEN Walk(fs, IF cur = Root THEN Root ELSE SubSeq(cur, 1, Len(cur) - 1), segs, i + 1)
    ELSE LET child == Append(cur, segs[i])
         IN  CASE Kind(fs, child) = "none" -> NoEntry
               [] Kind(fs, child) = "link" ->
                    IF Kind(fs, LinkTarget(fs)) = "none" THEN NoEntry
                    ELSE Walk(fs, LinkTarget(fs), segs, i + 1)
               [] OTHER -> Walk(fs, child, segs, i + 1)

Lookup(fs, dir, p) ==
    IF p = <<>> THEN NoEntry
    ELSE Walk(fs, IF is_absolute(p) THEN Root ELSE dir, Segments(p), 1)

\* Path::exists: metadata(path).is_ok(), symbolic links followed
exists(fs, dir, p) == Lookup(fs, dir, p).k = "ok"

\* the textual form of a canonical location
RECURSIVE NodePath(_)
NodePath(node) ==
    IF node = Root THEN <<"/">>
    ELSE IF Len(node) = 1 THEN <<"/">> \o node[1]
    ELSE NodePath(SubSeq(node, 1, Len(node) - 1)) \o <<"/">> \o node[Len(node)]

\* the parent of the path as given, nothing resolved
parent_of_given(fs, dir, p) ==
    LET n == Len(p) - Len(Segments(p)[Len(Segments(p))])
    IN  Some(IF n <= 1 THEN SubSeq(p, 1, n) ELSE SubSeq(p, 1, n - 1))

\* Path::canonicalize(..)?.parent(): the directory of the resolved location,
\* None for the root
canonical_parent(fs, dir, p) ==
    LET r == Lookup(fs, dir, p)
    IN  IF r.k = "err" THEN [k |-> "ioerr"]
        ELSE IF r.node = Root THEN None
        ELSE Some(NodePath(SubSeq(r.node, 1, Len(r.node) - 1)))

(* ------------------------- the parsed store --------------------------- *)
Keys == {"k", "m"}
Str(s) == [k |-> "str", s |-> s]
Table == [k |-> "table"]
StoreValues == {Str(v) : v \in Values} \cup {Table}

\* what the two versions of the configuration file hold
Content(ver) ==
    IF ver = "v1" THEN [x \in {"k"} |-> Str(<<".", "/", "a">>)]
    ELSE [x \in {"k"} |-> Str(<<"/", "a">>)]

\* config::File::with_name(path) ... build(): the store of a parseable file
build(fs, dir, p) ==
    LET r == Lookup(fs, dir, p)
    IN  IF r.k = "ok" /\ Kind(fs, r.node) = "file" /\ fs.file \in {"v1", "v2"}
        THEN [k |-> "ok", store |-> Content(fs.file)]
        ELSE [k |-> "err"]

(* --------------------------- Settings::new ---------------------------- *)
Unset == [k |-> "unset"]
NotUnicode == [k |-> "notunicode"]
SetTo(v) == [k |-> "set", v |-> v]

\* the context message of line 71 (its backquotes left out)
EnvMsg == "Environment Variable DEFAULT_GLOBAL_CONFIG empty or not defined"
NotFoundMsg == "config file not found: "

Err(class, text, path) == [k |-> "err", class |-> class, text |-> text, path |-> path]
Panic == [k |-> "panic"]
Ok(v) == [k |-> "ok", v |-> v]

\* std::env::var("DEFAULT_GLOBAL_CONFIG").context(..)?
default_config(e) ==
    IF e.k = "set" THEN Ok(e.v) ELSE Err("Environment", EnvMsg, <<>>)

\* the candidate path
resolve_path(config_file, e) ==
    IF config_file.k = "some" THEN Ok(config_file.v) ELSE default_config(e)

\* Settings::new without its existence check
load_unchecked(path, fs, dir) ==
    IF canonical_parent(fs, dir, path).k = "ioerr" THEN Err("Io", "", path)
    ELSE IF canonical_parent(fs, dir, path) = None THEN Panic
    ELSE IF file_name(path) = None THEN Panic
    ELSE IF build(fs, dir, path).k = "err" THEN Err("Parse", "", path)
    ELSE Ok([config_dir |-> canonical_parent(fs, dir, path).v,
             config_filename |-> file_name(path).v,
             settings |-> build(fs, dir, path).store])

\* the part of Settings::new after the candidate path is known
load(path, fs, dir) ==
    IF ~exists(fs, dir, path) THEN Err("NotFound", NotFoundMsg, path)
    ELSE IF canonical_parent(fs, dir, path).k = "ioerr" THEN Err("Io", "", path)
    ELSE IF canonical_parent(fs, dir, path) = None THEN Panic
    ELSE IF file_name(path) = None THEN Panic
    ELSE IF build(fs, dir, path).k = "err" THEN Err("Parse", "", path)
    ELSE Ok([config_dir |-> canonical_parent(fs, dir, path).v,
             config_filename |-> file_name(path).v,
             settings |-> build(fs, dir, path).store])

\* whether Settings::new gets as far as settings.build(), the parser
reaches_build(config_file, e, fs, dir) ==
    LET path == resolve_path(config_file, e)
    IN  /\ path.k = "ok"
        /\ exists(fs, dir, path.v)
        /\ canonical_parent(fs, dir, path.v).k = "some"
        /\ file_name(path.v) # None

new(config_file, e, fs, dir) ==
    LET path == resolve_path(config_file, e)
    IN  IF path.k = "err" THEN path ELSE load(path.v, fs, dir)

(* ------------------------- Settings::get_path ------------------------- *)
\* Config::get_string, the collaborator's lookup
get_string(store, key) ==
    IF key \notin DOMAIN store THEN Err("NotFound", "", <<>>)
    ELSE IF store[key].k # "str" THEN Err("Type", "", <<>>)
    ELSE Ok(store[key].s)

\* get_path that hands a relative value back as it is
get_path_cwd(self, key) ==
    LET value == get_string(self.settings, key)
    IN  IF value.k = "err" THEN value
        ELSE IF value.v = <<>> THEN Err("Message", "empty value", <<>>)
        ELSE Ok(value.v)

get_path(self, key) ==
    LET value == get_string(self.settings, key)
    IN  IF value.k = "err" THEN value
        ELSE IF value.v = <<>> THEN Err("Message", "empty value", <<>>)
        ELSE IF is_absolute(value.v) THEN Ok(value.v)
        ELSE Ok(join(self.config_dir, value.v))

(* ------------------------ OnceLock::get_or_init ------------------------ *)
Threads == 1..NumThreads
\* the thread whose end is the end of the process
MainThread == 1

\* The Once behind the OnceLock is "incomplete", "running", "poisoned" or
\* "complete".

\* a check-then-set cell: whoever finds the cell empty runs the closure
decide_racy(o) == IF o = "complete" THEN "return" ELSE "run"

\* a cell that is filled again by every call
decide_refill(o) == IF o = "running" THEN "wait" ELSE "run"

\* what get_or_init does with the Once as it finds it: return when the cell
\* is initialized, wait while another caller's closure runs, and run the
\* closure itself otherwise (a poisoned Once is taken over: call_once_force)
decide(o) ==
    IF o = "complete" THEN "return"
    ELSE IF o = "running" THEN "wait"
    ELSE "run"

\* a Once that is never marked complete
after_success_unfinished == "running"

\* the Once after the closure returned a value
after_success == "complete"

\* the Once after the closure panicked
after_panic == "poisoned"

\* a failure that is swallowed: the caller gets the cell all the same
after_failure_returns == "returned"

\* where the caller of global_config() is after its closure panicked:
\* panic! never returns to the caller
after_failure == "dead"

(* ------------------------------ the state ----------------------------- *)
VARIABLES
    cwd,        \* the process's current directory, a canonical location
    fs,         \* the filesystem
    env,        \* the environment variable DEFAULT_GLOBAL_CONFIG
    built,      \* the last direct call of Settings::new: argument and result
    got,        \* the last call of get_path: key and result
    once,       \* the state of CELL's Once
    cell,       \* the content of CELL
    pc,         \* where each thread is in global_config()
    seen,       \* what global_config().get() gave each caller that returned
    newCalls,   \* how often the closure ran Settings::new(None)
    failed,     \* some run of the closure has failed
    alive       \* the process has not been terminated

vars == <<cwd, fs, env, built, got, once, cell, pc, seen, newCalls, failed, alive>>
world == <<cwd, fs, env>>
direct == <<built, got>>
global == <<once, cell, pc, seen, newCalls, failed, alive>>

NotCalled == [k |-> "none"]

GlobalIdle ==
    /\ once = "incomplete"
    /\ cell = None
    /\ pc = [t \in Threads |-> "idle"]
    /\ seen = [t \in Threads |-> None]
    /\ newCalls = 0
    /\ failed = FALSE
    /\ alive = TRUE

(* ---------------- the process calling global_config() ----------------- *)
\* the values DEFAULT_GLOBAL_CONFIG takes in the runs of global_config()
GlobalEnvs == {Unset, SetTo(<<>>), SetTo(C)}

Init ==
    /\ cwd = Root
    /\ fs \in {f \in FileSystems : f.at = Root /\ f.link = "tofile"}
    /\ env \in GlobalEnvs
    /\ built = NotCalled
    /\ got = NotCalled
    /\ GlobalIdle

\* a thread calls global_config()
Call(t) ==
    /\ alive /\ pc[t] = "idle"
    /\ pc' = [pc EXCEPT ![t] = "enter"]
    /\ UNCHANGED <<world, direct, once, cell, seen, newCalls, failed, alive>>

\* the value a returning caller reads from the cell, with the way it came
\* back (it ran the closure, found the cell filled, or waited for another
\* caller's closure) and whether construction would by now give something
\* else
Observed(via) ==
    [k |-> "some", v |-> cell'.v, via |-> via,
     stale |-> new(None, env, fs, cwd) # Ok(cell'.v)]

\* get_or_init finds the cell initialized: no closure runs
FastPath(t) ==
    /\ alive /\ pc[t] \in {"enter", "woken"} /\ decide(once) = "return"
    /\ pc' = [pc EXCEPT ![t] = "returned"]
    /\ UNCHANGED <<once, cell>>
    /\ seen' = [seen EXCEPT ![t] = Observed(IF pc[t] = "woken" THEN "waited" ELSE "fast")]
    /\ UNCHANGED <<world, direct, newCalls, failed, alive>>

\* get_or_init takes the Once and starts the closure
Claim(t) ==
    /\ alive /\ pc[t] \in {"enter", "woken"} /\ decide(once) = "run"
    /\ once' = "running"
    /\ pc' = [pc EXCEPT ![t] = "init"]
    /\ UNCHANGED <<world, direct, cell, seen, newCalls, failed, alive>>

\* get_or_init finds another thread's closure running and blocks
Block(t) ==
    /\ alive /\ pc[t] \in {"enter", "woken"} /\ decide(once) = "wait"
    /\ pc' = [pc EXCEPT ![t] = "wait"]
    /\ UNCHANGED <<world, direct, once, cell, seen, newCalls, failed, alive>>

\* the running closure ended: the waiter looks at the Once again
Wake(t) ==
    /\ alive /\ pc[t] = "wait" /\ once # "running"
    /\ pc' = [pc EXCEPT ![t] = "woken"]
    /\ UNCHANGED <<world, direct, once, cell, seen, newCalls, failed, alive>>

Count(n) == IF n < MaxCount THEN n + 1 ELSE n

\* the closure: Settings::new(None) gave a value, which fills the cell
InitOk(t) ==
    /\ alive /\ pc[t] = "init"
    /\ new(None, env, fs, cwd).k = "ok"
    /\ newCalls' = Count(newCalls)
    /\ cell' = Some(new(None, env, fs, cwd).v)
    /\ once' = after_success
    /\ pc' = [pc EXCEPT ![t] = "returned"]
    /\ seen' = [seen EXCEPT ![t] = Observed("init")]
    /\ UNCHANGED <<world, direct, failed, alive>>

\* the closure: Settings::new(None) failed (or panicked) and the closure
\* panics; the panic unwinds the calling thread or, in the main thread and
\* in a build with panic=abort, ends the process
InitFail(t) ==
    /\ alive /\ pc[t] = "init"
    /\ new(None, env, fs, cwd).k # "ok"
    /\ newCalls' = Count(newCalls)
    /\ failed' = TRUE
    /\ once' = after_panic
    /\ pc' = [pc EXCEPT ![t] = after_failure]
    /\ \/ alive' = FALSE
       \/ t # MainThread /\ alive' = alive
    /\ UNCHANGED <<world, direct, cell, seen>>

\* the caller is done with what it got
Release(t) ==
    /\ alive /\ pc[t] = "returned"
    /\ pc' = [pc EXCEPT ![t] = "idle"]
    /\ seen' = [seen EXCEPT ![t] = None]
    /\ UNCHANGED <<world, direct, once, cell, newCalls, failed, alive>>

\* a new thread takes the place of one that a panic ended
Spawn(t) ==
    /\ alive /\ pc[t] = "dead" /\ t # MainThread
    /\ pc' = [pc EXCEPT ![t] = "idle"]
    /\ UNCHANGED <<world, direct, once, cell, seen, newCalls, failed, alive>>

\* the environment variable is set or removed
SetEnv(e) ==
    /\ alive /\ e # env
    /\ env' = e
    /\ UNCHANGED <<cwd, fs, direct, global>>

\* the configuration file is written, replaced or removed
WriteFile(f) ==
    /\ alive /\ f # fs.file
    /\ fs' = [fs EXCEPT !.file = f]
    /\ UNCHANGED <<cwd, env, direct, global>>

Progress(t) ==
    FastPath(t) \/ Claim(t) \/ Block(t) \/ Wake(t) \/ InitOk(t) \/ InitFail(t)

\* the steps of the threads
NextCalls ==
    \/ \E t \in Threads : Call(t)
    \/ \E t \in Threads : FastPath(t)
    \/ \E t \in Threads : Claim(t)
    \/ \E t \in Threads : Block(t)
    \/ \E t \in Threads : Wake(t)
    \/ \E t \in Threads : InitOk(t)
    \/ \E t \in Threads : InitFail(t)
    \/ \E t \in Threads : Release(t)
    \/ \E t \in Threads : Spawn(t)

Next ==
    \/ NextCalls
    \/ \E e \in GlobalEnvs : SetEnv(e)
    \/ \E f \in FileStates : WriteFile(f)

Spec == Init /\ [][Next]_vars

\* the threads alone, the variable and the file staying as the process
\* found them; every thread that can take a step of get_or_init
\* eventually takes it
InitFair == Init /\ env \in {Unset, SetTo(C)} /\ fs.file = "v1"

FairSpec ==
    InitFair /\ [][NextCalls]_vars /\ \A t \in Threads : WF_vars(Progress(t))

(* ------------------ direct calls of Settings::new --------------------- *)
Pending == [k |-> "pending"]

\* a call about to be made, and the call made
Calling(arg) == [arg |-> arg, res |-> Pending, parsed |-> FALSE]
Built(arg) ==
    [arg |-> arg, res |-> new(arg, env, fs, cwd),
     parsed |-> reaches_build(arg, env, fs, cwd)]

\* Settings::new(Some(path))
NewExplicit ==
    /\ built.res = Pending /\ built.arg.k = "some"
    /\ built' = Built(built.arg)
    /\ UNCHANGED <<world, got, global>>

InitNew ==
    /\ cwd \in Dirs
    /\ fs \in FileSystems
    /\ env = Unset
    /\ \E p \in Paths : built = Calling(Some(p))
    /\ got = NotCalled
    /\ GlobalIdle

NextNew == NewExplicit

SpecNew == InitNew /\ [][NextNew]_vars

\* Settings::new(None)
NewDefault ==
    /\ built.res = Pending /\ built.arg = None
    /\ built' = Built(None)
    /\ UNCHANGED <<world, got, global>>

EnvValues == {Unset, NotUnicode} \cup {SetTo(p) : p \in Paths}

InitEnv ==
    /\ cwd \in Dirs
    /\ fs \in FileSystems
    /\ env \in EnvValues
    /\ built = Calling(None)
    /\ got = NotCalled
    /\ GlobalIdle

NextEnv == NewDefault

SpecEnv == InitEnv /\ [][NextEnv]_vars

(* ------------------------ calls of get_path --------------------------- *)
\* the directories a configuration file can be in
ConfigDirs == {NodePath(d) : d \in Dirs}

\* the stores get_path is tried on: the key "k" absent or holding any value
Stores == {[x \in {} |-> Table]} \cup {[x \in {"k"} |-> v] : v \in StoreValues}

InitPath ==
    /\ cwd \in Dirs
    /\ fs = [file |-> "v1", at |-> Root, link |-> "absent"]
    /\ env = Unset
    /\ \E d \in ConfigDirs, st \in Stores :
          built = [arg |-> None,
                   res |-> Ok([config_dir |-> d, config_filename |-> C, settings |-> st]),
                   parsed |-> TRUE]
    /\ got = NotCalled
    /\ GlobalIdle

\* self.get_path(key)
GetPath(key) ==
    /\ got' = [key |-> key, res |-> get_path(built.res.v, key)]
    /\ UNCHANGED <<world, built, global>>

\* std::env::set_current_dir
ChDir(d) ==
    /\ d # cwd
    /\ cwd' = d
    /\ UNCHANGED <<fs, env, direct, global>>

NextPath ==
    \/ \E key \in Keys : GetPath(key)
    \/ \E d \in Dirs : ChDir(d)

SpecPath == InitPath /\ [][NextPath]_vars

(* =============================== claims =============================== *)
Returned(t) == pc[t] = "returned"

\* C1: as long as no run of the closure has failed, Settings::new(None) has
\* been executed exactly once when the cell is filled (and not at all
\* before), and every caller that returned observes the one value of the
\* cell: the same config_dir and the same config_filename.
C1_ConstructedOnce ==
    ~failed =>
        /\ newCalls = (IF cell = None THEN 0 ELSE 1)
        /\ \A t \in Threads : Returned(t) => seen[t].v = cell.v
        /\ \A t, u \in Threads :
              Returned(t) /\ Returned(u) =>
                  /\ seen[t].v.config_dir = seen[u].v.config_dir
                  /\ seen[t].v.config_filename = seen[u].v.config_filename

\* two callers raced: one ran the closure, the other waited for it
C1_Witness ==
    /\ ~failed /\ newCalls = 1
    /\ \E t, u \in Threads :
          /\ Returned(t) /\ seen[t].via = "init"
          /\ Returned(u) /\ seen[u].via = "waited"

\* C2: once the cell holds a value no step replaces or resets it, no step
\* runs Settings::new(None) again, and every caller that has returned holds
\* that value, whatever the environment variable and the file are by then.
C2_NeverReplaced ==
    [][cell # None =>
          /\ cell' = cell
          /\ newCalls' = newCalls
          /\ \A t \in Threads : pc'[t] = "returned" => seen'[t].v = cell.v]_vars

\* a later call returned the cached value although constructing again
\* would have given something else
C2_Witness ==
    \E t \in Threads : Returned(t) /\ seen[t].via = "fast" /\ seen[t].stale

\* C3: after a failed construction in global_config() the process is
\* terminated: no thread goes on with the global configuration unloaded.
C3_FailureIsFatal == failed => ~alive

\* C4: a caller that finds the closure running leaves its wait only when
\* the closure has ended, a caller that has returned finds the cell filled,
\* and, as long as no construction fails, every caller inside
\* global_config() returns.
C4_BlockThenReturn ==
    /\ [][\A t \in Threads :
            pc[t] = "wait" /\ pc'[t] # "wait" => once # "running"]_vars
    /\ [](\A t \in Threads : Returned(t) => once = "complete" /\ cell # None)
    /\ \A t \in Threads :
          (pc[t] \in {"enter", "wait", "woken", "init"}) ~> (Returned(t) \/ failed)

\* a caller that waited has returned, and no construction failed
C4_Witness ==
    ~failed /\ \E t \in Threads : Returned(t) /\ seen[t].via = "waited"

\* C5: Settings::new(None) fails with the Environment error naming
\* DEFAULT_GLOBAL_CONFIG when the variable is unset or set to "".
C5_EnvError ==
    (built.res # Pending /\ built.arg = None /\ env \in {Unset, SetTo(<<>>)}) =>
        /\ built.res.k = "err"
        /\ built.res.class = "Environment"
        /\ built.res.text = EnvMsg

\* C6: Settings::new(Some(path)) of a path that does not resolve to
\* anything fails with the NotFound error carrying that path, without
\* reaching the parser and without a Settings value.
C6_NotFound ==
    (built.res # Pending /\ built.arg.k = "some"
        /\ Lookup(fs, cwd, built.arg.v).k = "err") =>
        /\ built.res = Err("NotFound", NotFoundMsg, built.arg.v)
        /\ ~built.parsed

\* a dangling symbolic link was given
C6_Witness ==
    /\ built.res # Pending /\ built.arg = Some(<<"/", "l">>)
    /\ fs.link = "tofile" /\ fs.file = "absent"
    /\ built.res.k = "err" /\ built.res.class = "NotFound"

\* the path leads to a configuration file that parses
PointsToConfig(p) ==
    /\ Lookup(fs, cwd, p).k = "ok"
    /\ Kind(fs, Lookup(fs, cwd, p).node) = "file"
    /\ fs.file \in {"v1", "v2"}

LastSegment(p) == Segments(p)[Len(Segments(p))]

\* C9: for a path that leads to an existing, parseable file
\* Settings::new(Some(path)) succeeds, config_dir is absolute and is the
\* directory of the resolved file, and config_filename is the last
\* component of the path as given.
C9_DirAndName ==
    (built.res # Pending /\ built.arg.k = "some" /\ PointsToConfig(built.arg.v)) =>
        /\ built.res.k = "ok"
        /\ built.res.v.config_dir[1] = "/"
        /\ built.res.v.config_dir = NodePath(fs.at)
        /\ built.res.v.config_filename = LastSegment(built.arg.v)
        /\ built.res.v.config_dir \in ConfigDirs

\* a relative path through the symbolic link: the directory is the
\* target's, the name is the link's
C9_Witness ==
    /\ built.res # Pending /\ built.res.k = "ok"
    /\ ~is_absolute(built.arg.v)
    /\ built.res.v.config_filename = L
    /\ built.res.v.config_dir = <<"/", "a">>

Separator(dir) == IF dir[Len(dir)] = "/" THEN <<>> ELSE <<"/">>

\* C7: get_path gives the lookup's error as it is, the "empty value" error
\* for "", an absolute value as it is, and for every other value the
\* configuration directory, a separator and the value: an absolute path,
\* whatever the current directory is.
C7_FourOutcomes ==
    got # NotCalled =>
        LET self == built.res.v
            look == get_string(self.settings, got.key)
            r == got.res
        IN  /\ look.k = "err" => r = look
            /\ look = Ok(<<>>) =>
                  r.k = "err" /\ r.text = "empty value" /\ r.class \notin {"NotFound", "Type"}
            /\ (look.k = "ok" /\ look.v # <<>> /\ look.v[1] = "/") => r = Ok(look.v)
            /\ (look.k = "ok" /\ look.v # <<>> /\ look.v[1] # "/") =>
                  /\ r = Ok(self.config_dir \o Separator(self.config_dir) \o look.v)
                  /\ r.v[1] = "/"

\* the value "." is accepted
C7_Witness ==
    /\ got # NotCalled /\ got.key = "k" /\ got.res.k = "ok"
    /\ built.res.v.settings = [x \in {"k"} |-> Str(<<".">>)]

\* the key's value begins with "./"
DotSlash(key) ==
    LET st == built.res.v.settings
    IN  /\ key \in DOMAIN st /\ st[key].k = "str"
        /\ Len(st[key].s) >= 2 /\ SubSeq(st[key].s, 1, 2) = <<".", "/">>

\* C8 as stated: the returned path is the configuration directory followed
\* by the value without its leading "." segment.
C8_DotRemoved ==
    (got # NotCalled /\ DotSlash(got.key)) =>
        LET self == built.res.v
            value == self.settings[got.key].s
        IN  got.res = Ok(self.config_dir \o Separator(self.config_dir)
                            \o SubSeq(value, 3, Len(value)))

\* C8 as amended: the returned path is the configuration directory, a
\* separator and the value as written, "." included; its components are the
\* directory's followed by the value's without the leading ".".
C8_DotKept ==
    (got # NotCalled /\ DotSlash(got.key)) =>
        LET self == built.res.v
            value == self.settings[got.key].s
        IN  /\ got.res = Ok(self.config_dir \o Separator(self.config_dir) \o value)
            /\ Components(got.res.v) = Components(self.config_dir) \o Tail(Components(value))

\* "./a" in a configuration of /a: /a/./a, the same location as /a/a
C8_Witness ==
    /\ got # NotCalled /\ DotSlash(got.key)
    /\ built.res.v.config_dir = <<"/", "a">>
    /\ got.res = Ok(<<"/", "a", "/", ".", "/", "a">>)
    /\ PathEq(got.res.v, <<"/", "a", "/", "a">>)

\* C10: a caller to which global_config() has returned finds the cell
\* initialized, so get() gives a value; a caller whose construction failed
\* was handed nothing.
C10_ReturnedIsInitialized ==
    \A t \in Threads :
        /\ Returned(t) => once = "complete" /\ cell # None /\ seen[t].k = "some"
        /\ pc[t] = "dead" => seen[t] = None

\* a call returned after an earlier call had failed
C10_Witness ==
    failed /\ alive /\ \E t, u \in Threads : Returned(t) /\ pc[u] = "dead"

=============================================================================
